---- MODULE Spec2Model ----
(***************************************************************************)
(* A model of the tic-tac-toe engine of src/src/main.rs: the BitBoard      *)
(* word, the TicTacToeBoard pair of masks, the TicTacToeGame state value   *)
(* and its make_play transition.  Spec is main: its loop calls make_play  *)
(* on the game it holds while the game is not over and leaves the loop    *)
(* when it is.  ApiSpec applies the public function make_play to a held   *)
(* game with no loop guard, so also to games that are already decided.    *)
(*                                                                         *)
(* A BitBoard is a usize word.  It is represented by the set of the        *)
(* indices of its set bits, a subset of 0..USIZE_BITS-1, so that &, | and  *)
(* == of the word are intersection, union and equality of the sets.        *)
(***************************************************************************)
EXTENDS Integers, Naturals, FiniteSets, Sequences, TLC

\* Width of usize on the 64-bit targets the program is built for.
USIZE_BITS == 64

\* Largest placement value a caller supplies in the model (usize is unbounded
\* for practical purposes; every value above 9 takes the same path).
MaxPlacement == 11

Placements == 0..MaxPlacement

VARIABLES
    game,             \* main's `game`: the TicTacToeGame value the caller holds
    receiver,         \* the value of `game` the last make_play was called on (&self)
    placement,        \* the argument of the last make_play call
    ret,              \* how the last call ended: "NoCall", "Some", "None", "Panic"
    moves,            \* number of calls that returned Some so far
    overflow_checks,  \* build profile: TRUE = overflow checks on (debug), FALSE = off (release)
    pc                \* main's position: "loop" inside `while !game.is_over()`, "done" after it

vars == <<game, receiver, placement, ret, moves, overflow_checks, pc>>

----------------------------------------------------------------------------
(* bitboard::BitBoard *)

RECURSIVE Bit(_, _)
\* Bit i of the natural number n: (n >> i) & 1.
Bit(n, i) == IF i = 0 THEN n % 2 ELSE Bit(n \div 2, i - 1)

\* BitBoard::with_bits(board): the word whose value is the number `board`.
with_bits(n) == {i \in 0..(USIZE_BITS - 1) : Bit(n, i) = 1}

\* BitBoard::new(): the zero word.
BitBoard_new == {}

bitand(a, b) == a \cap b

bitor(a, b) == a \cup b

\* BitBoard::get_bit
get_bit(b, bit) == IF bit \in b THEN 1 ELSE 0

----------------------------------------------------------------------------
(* Integer arithmetic on usize.  An index is kept as an integer that stands *)
(* for its residue modulo 2^USIZE_BITS, so -1 stands for usize::MAX.        *)

\* `placement - 1` overflows (the subtraction wraps or panics).
sub_overflows(p) == p - 1 < 0

\* `1 << n` overflows: the shift amount is not below the width of usize.
shl_overflows(n) == n < 0 \/ n >= USIZE_BITS

\* The usize value 1 << n with the shift amount wrapped to the width, as the
\* build without overflow checks computes it.
one_shl(n) == {n % USIZE_BITS}

----------------------------------------------------------------------------
(* tictactoe constants *)

FILLED_BOARD == with_bits(511)

EMPTY_BOARD == with_bits(0)

WON_BOARDS_missing_diagonal ==
    << with_bits(448), with_bits(56), with_bits(7),
       with_bits(292), with_bits(146), with_bits(73),
       with_bits(273), with_bits(273) >>

WON_BOARDS ==
    << with_bits(448),    \* 0b111000000 top horizontal
       with_bits(56),     \* 0b000111000 mid horizontal
       with_bits(7),      \* 0b000000111 bot horizontal
       with_bits(292),    \* 0b100100100 left vertical
       with_bits(146),    \* 0b010010010 mid vertical
       with_bits(73),     \* 0b001001001 right vertical
       with_bits(273),    \* 0b100010001 left-right diagonal
       with_bits(84) >>   \* 0b001010100 right-left diagonal

----------------------------------------------------------------------------
(* Option<T> *)

None == << >>

Some(v) == << v >>

----------------------------------------------------------------------------
(* tictactoe::TicTacToeBoard *)

TicTacToeBoard_new == [x_board |-> BitBoard_new, o_board |-> BitBoard_new]

is_empty(board) == bitor(board.x_board, board.o_board) = EMPTY_BOARD

is_filled(board) == bitor(board.x_board, board.o_board) = FILLED_BOARD

already_played_x_only(board, n) ==
    bitand(board.x_board, one_shl(n)) # EMPTY_BOARD

already_played(board, n) ==
    bitand(bitor(board.x_board, board.o_board), one_shl(n)) # EMPTY_BOARD

place_on_x_board(board, n) ==
    IF already_played(board, n)
    THEN None
    ELSE Some([x_board |-> bitor(board.x_board, one_shl(n)),
               o_board |-> board.o_board])

place_on_o_board_unchecked(board, n) ==
    Some([x_board |-> board.x_board,
          o_board |-> bitor(board.o_board, one_shl(n))])

place_on_o_board(board, n) ==
    IF already_played(board, n)
    THEN None
    ELSE Some([x_board |-> board.x_board,
               o_board |-> bitor(board.o_board, one_shl(n))])

----------------------------------------------------------------------------
(* tictactoe::TicTacToeGame *)

TicTacToeGame_new ==
    [board |-> TicTacToeBoard_new, current_player |-> "X", status |-> "StillGoing"]

current_status(self) == self.status

is_over(self) == current_status(self) # "StillGoing"

\* One of the loops of get_status: some entry of WON_BOARDS is contained in b.
has_won(b) ==
    \E i \in 1..Len(WON_BOARDS) : bitand(b, WON_BOARDS[i]) = WON_BOARDS[i]

get_status_o_only(self) ==
    IF has_won(self.board.o_board) THEN "OWon"
    ELSE IF is_filled(self.board) THEN "Draw"
    ELSE "StillGoing"

get_status_x_only(self) ==
    IF has_won(self.board.x_board) THEN "XWon"
    ELSE IF is_filled(self.board) THEN "Draw"
    ELSE "StillGoing"

get_status_draw_first(self) ==
    IF is_filled(self.board) THEN "Draw"
    ELSE IF has_won(self.board.x_board) THEN "XWon"
    ELSE IF has_won(self.board.o_board) THEN "OWon"
    ELSE "StillGoing"

get_status(self) ==
    IF has_won(self.board.x_board) THEN "XWon"
    ELSE IF has_won(self.board.o_board) THEN "OWon"
    ELSE IF is_filled(self.board) THEN "Draw"
    ELSE "StillGoing"

get_current_player(self) == self.current_player

RECURSIVE get_moves_loop(_, _, _)
\* The loop of get_moves from index b on: `for b in 0..9`, pushing b when its
\* bit in current_places is 0.
get_moves_loop(current_places, b, acc) ==
    IF b >= 9 THEN acc
    ELSE get_moves_loop(current_places, b + 1,
                        IF get_bit(current_places, b) = 0 THEN Append(acc, b) ELSE acc)

get_moves_x_only(self) == get_moves_loop(self.board.x_board, 0, << >>)

get_moves(self) ==
    get_moves_loop(bitor(self.board.x_board, self.board.o_board), 0, << >>)

\* make_play, first guard: the game is already decided.
game_decided_never(self) == FALSE

game_decided(self) == get_status(self) # "StillGoing"

\* make_play, second guard: the placement is too large.
out_of_range(p) == p > 9

next_player_same(player) == player

next_player(player) == IF player = "X" THEN "O" ELSE "X"

\* make_play, last step: the status of the new value is computed from its board.
with_status_stale(game_state) == game_state

with_status(game_state) == [game_state EXCEPT !.status = get_status(game_state)]

\* The call aborts: with overflow checks on, `placement - 1` or `1 << (placement - 1)`
\* panics once the two guards have let the placement through.
make_play_panics(self, p, checks) ==
    /\ checks
    /\ ~game_decided(self)
    /\ ~out_of_range(p)
    /\ (sub_overflows(p) \/ shl_overflows(p - 1))

\* The value make_play returns when it returns.
make_play(self, p) ==
    IF game_decided(self) THEN None
    ELSE IF out_of_range(p) THEN None
    ELSE LET tttboard == IF self.current_player = "X"
                         THEN place_on_x_board(self.board, p - 1)
                         ELSE place_on_o_board(self.board, p - 1)
         IN  IF tttboard = None THEN None
             ELSE Some(with_status([board          |-> tttboard[1],
                                    current_player |-> next_player(self.current_player),
                                    status         |-> "StillGoing"]))

----------------------------------------------------------------------------
(* The caller *)

unwrap_or(opt, default) == IF opt = None THEN default ELSE opt[1]

\* main's player_moves: game.get_moves().iter().map(|m| m + 1).collect()
player_moves(self) ==
    [i \in 1..Len(get_moves(self)) |-> get_moves(self)[i] + 1]

Init ==
    /\ game = TicTacToeGame_new
    /\ receiver = TicTacToeGame_new
    /\ placement = 1
    /\ ret = "NoCall"
    /\ moves = 0
    /\ overflow_checks \in BOOLEAN
    /\ pc = "loop"

\* game = game.make_play(placement).unwrap_or(game), or the abort of the process.
Step(p) ==
    /\ ret # "Panic"
    /\ receiver' = game
    /\ placement' = p
    /\ UNCHANGED overflow_checks
    /\ IF make_play_panics(game, p, overflow_checks)
       THEN /\ ret' = "Panic"
            /\ UNCHANGED <<game, moves>>
       ELSE LET r == make_play(game, p)
            IN  /\ ret' = IF r = None THEN "None" ELSE "Some"
                /\ game' = unwrap_or(r, game)
                /\ moves' = IF r = None THEN moves ELSE moves + 1

\* One iteration of main's loop: the guard `!game.is_over()` holds, a placement
\* is read and make_play is called with it.
Play(p) ==
    /\ pc = "loop"
    /\ ~is_over(game)
    /\ Step(p)
    /\ UNCHANGED pc

\* main leaves the loop: the guard `!game.is_over()` fails.
Exit ==
    /\ pc = "loop"
    /\ ret # "Panic"
    /\ is_over(game)
    /\ pc' = "done"
    /\ UNCHANGED <<game, receiver, placement, ret, moves, overflow_checks>>

Next == (\E p \in Placements : Play(p)) \/ Exit

Spec == Init /\ [][Next]_vars

\* A direct call of the public function make_play on the held game, whatever
\* its status, keeping the result as main does.
Call(p) == Step(p) /\ UNCHANGED pc

ApiNext == \E p \in Placements : Call(p)

ApiSpec == Init /\ [][ApiNext]_vars

----------------------------------------------------------------------------
(* Properties of make_play *)

Cells == 0..8

\* The cells 0..8 marked by either player on a board.
occupied(board) == bitor(board.x_board, board.o_board) \cap Cells

\* A call has been made and has ended as r.
called == ret # "NoCall"

\* C1: a placement outside 1..9 (0, 10, ...) is rejected by make_play, which
\* returns no new state, and the held game state is unchanged.
C1_OutOfRangeRejected ==
    (called /\ placement \notin 1..9) => (ret = "None" /\ game = receiver)

\* C2: make_play never faults: every call returns Some or None, and on the
\* path that translates the placement neither `placement - 1` underflows nor
\* `1 << (placement - 1)` overflows.
C2_NeverFaults ==
    called =>
        /\ ret \in {"Some", "None"}
        /\ (~game_decided(receiver) /\ ~out_of_range(placement)) =>
               (~sub_overflows(placement) /\ ~shl_overflows(placement - 1))

\* C3: on a state whose outcome is XWon, OWon or Draw make_play rejects every
\* placement, so the held terminal state never changes.
C3_TerminalRejects ==
    (called /\ receiver.status # "StillGoing") =>
        /\ ret = "None"
        /\ game = receiver
        /\ \A p \in 1..9 : make_play(game, p) = None

C3_Witness ==
    /\ ret = "None"
    /\ receiver.status = "XWon"
    /\ placement \in 1..9
    /\ (placement - 1) \notin occupied(receiver.board)

\* C4: in an in-progress state a placement 1..9 on a cell already marked by
\* either player is rejected, the held state is unchanged, and the same call
\* made again is rejected again.
C4_OccupiedRejected ==
    (/\ called
     /\ receiver.status = "StillGoing"
     /\ placement \in 1..9
     /\ (placement - 1) \in occupied(receiver.board)) =>
        /\ ret = "None"
        /\ game = receiver
        /\ make_play(game, placement) = None
        /\ ~make_play_panics(game, placement, overflow_checks)

C4_Witness ==
    /\ ret = "None"
    /\ receiver.status = "StillGoing"
    /\ receiver.current_player = "X"
    /\ placement \in 1..9
    /\ (placement - 1) \in receiver.board.o_board
    /\ game = receiver

\* C5: in every reachable state the two masks are disjoint: x_board & o_board == 0.
C5_Disjoint == bitand(game.board.x_board, game.board.o_board) = EMPTY_BOARD

C5_Witness ==
    /\ Cardinality(game.board.x_board) >= 2
    /\ Cardinality(game.board.o_board) >= 2
    /\ ret = "None"
    /\ placement \in 1..9
    /\ (placement - 1) \in game.board.x_board
    /\ receiver.current_player = "O"

\* C6: X moves first, the current player flips on every accepted move and is
\* unchanged by every rejected one, so the movers of the accepted moves
\* alternate X, O, X, ... starting from X.
C6_Alternation ==
    /\ (ret = "NoCall") => game.current_player = "X"
    /\ (ret = "Some") => game.current_player # receiver.current_player
    /\ (ret = "None") => game.current_player = receiver.current_player
    /\ game.current_player = (IF moves % 2 = 0 THEN "X" ELSE "O")

C6_Witness ==
    /\ moves = 3
    /\ ret = "Some"
    /\ receiver.current_player = "X"
    /\ game.current_player = "O"

\* C7: the stored status equals the status recomputed from the board by
\* get_status, so is_over and make_play's game-over guard agree.
C7_StatusFresh ==
    /\ game.status = get_status(game)
    /\ is_over(game) <=> game_decided(game)

C7_Witness ==
    /\ ret = "Some"
    /\ game.status = "OWon"
    /\ receiver.status = "StillGoing"

\* C8: when all nine cells are occupied and neither player's marks contain a
\* win-line, the outcome is Draw.
C8_FullBoardDraw ==
    (/\ occupied(game.board) = Cells
     /\ ~has_won(game.board.x_board)
     /\ ~has_won(game.board.o_board)) => game.status = "Draw"

\* C9: an accepted move that completes a win-line of the mover and fills the
\* ninth cell yields the mover's win, not Draw.
C9_WinBeforeDraw ==
    (/\ ret = "Some"
     /\ occupied(game.board) = Cells
     /\ has_won(IF receiver.current_player = "X"
                THEN game.board.x_board ELSE game.board.o_board)) =>
        game.status = (IF receiver.current_player = "X" THEN "XWon" ELSE "OWon")

C9_Witness ==
    /\ ret = "Some"
    /\ occupied(game.board) = Cells
    /\ Cardinality(occupied(receiver.board)) = 8
    /\ receiver.current_player = "X"
    /\ game.status = "XWon"

\* The eight win-lines as sets of cells: 3 rows, 3 columns, 2 diagonals.
Lines ==
    { {6, 7, 8}, {3, 4, 5}, {0, 1, 2},
      {2, 5, 8}, {1, 4, 7}, {0, 3, 6},
      {0, 4, 8}, {2, 4, 6} }

\* C10: whenever a player's marks contain one of the eight win-lines, the
\* outcome of the state, stored by the move that completed the line and
\* recomputed by get_status, is that player's win.
C10_LineWins ==
    \A L \in Lines :
        /\ L \subseteq game.board.x_board =>
               (game.status = "XWon" /\ get_status(game) = "XWon")
        /\ L \subseteq game.board.o_board =>
               (game.status = "OWon" /\ get_status(game) = "OWon")

\* X wins right after the fifth move of 1, 4, 2, 5, 3.
C10_Witness ==
    /\ ret = "Some"
    /\ placement = 3
    /\ moves = 5
    /\ game.board.x_board = {0, 1, 2}
    /\ game.board.o_board = {3, 4}
    /\ game.status = "XWon"

----------------------------------------------------------------------------
(* Properties of get_moves *)

\* seq lists the elements of the set S of integers exactly once, in ascending order.
IsAscendingListOf(seq, S) ==
    /\ Len(seq) = Cardinality(S)
    /\ {seq[i] : i \in 1..Len(seq)} = S
    /\ \A i \in 1..(Len(seq) - 1) : seq[i] < seq[i + 1]

\* The placements 1..9 whose cell is free on a board.
free_placements(board) == {p \in 1..9 : (p - 1) \notin occupied(board)}

\* C11 as stated: get_moves returns, in ascending order, exactly the 1-based
\* placements p in 1..9 whose cell p-1 is unoccupied.
C11_OneBased == IsAscendingListOf(get_moves(game), free_placements(game.board))

\* C11 as amended: get_moves returns, in ascending order, exactly the 0-based
\* indices of the unoccupied cells (empty once the board is full); the
\* 1-based placements are what main derives from it by adding one.
C11_ZeroBased ==
    /\ IsAscendingListOf(get_moves(game), Cells \ occupied(game.board))
    /\ IsAscendingListOf(player_moves(game), free_placements(game.board))
    /\ (occupied(game.board) = Cells) => (get_moves(game) = << >>)

C11_Witness ==
    /\ ret = "Some"
    /\ game.board.x_board = {0, 4}
    /\ game.board.o_board = {2, 8}
    /\ get_moves(game) = <<1, 3, 5, 6, 7>>
    /\ player_moves(game) = <<2, 4, 6, 7, 8>>

----------------------------------------------------------------------------
(* Properties of the reachable boards *)

\* The mask of the player who made the move that produced `game`.
mover_mask == IF receiver.current_player = "X"
              THEN game.board.x_board ELSE game.board.o_board

\* C12: no reachable state has a complete win-line in both players' masks.
C12_NoDoubleWin ==
    ~(has_won(game.board.x_board) /\ has_won(game.board.o_board))

\* X has just completed a line while O holds two cells of a line whose third
\* cell is still free.
C12_Witness ==
    /\ game.status = "XWon"
    /\ ret = "Some"
    /\ has_won(game.board.x_board)
    /\ \E L \in Lines :
           /\ Cardinality(L \cap game.board.o_board) = 2
           /\ L \cap occupied(game.board) = L \cap game.board.o_board

\* C13: an accepted make_play(p) sets exactly bit p-1, a cell of the board,
\* in the mover's mask and leaves the other mask unchanged, so the number of
\* occupied cells grows by exactly one and no earlier mark is removed.
C13_OneCellPerMove ==
    (ret = "Some") =>
        /\ (placement - 1) \in Cells
        /\ (IF receiver.current_player = "X"
            THEN /\ game.board.x_board = receiver.board.x_board \cup {placement - 1}
                 /\ game.board.o_board = receiver.board.o_board
            ELSE /\ game.board.o_board = receiver.board.o_board \cup {placement - 1}
                 /\ game.board.x_board = receiver.board.x_board)
        /\ (placement - 1) \notin occupied(receiver.board)
        /\ Cardinality(occupied(game.board)) = Cardinality(occupied(receiver.board)) + 1

\* C14: at most 9 moves are accepted, every state reached after 9 accepted
\* moves is terminal, main has left its loop only if the game is over, and an
\* accepted move never returns to a state left before (the number of set bits
\* of the two masks strictly grows).
C14_AtMostNineMoves ==
    /\ moves <= 9
    /\ (moves = 9) => is_over(game)
    /\ (pc = "done") => is_over(game)
    /\ (ret = "Some") =>
           Cardinality(bitor(game.board.x_board, game.board.o_board))
               > Cardinality(bitor(receiver.board.x_board, receiver.board.o_board))

\* get_status restricted to one player's lines: the mover's win, then the
\* full-board draw.
mover_status ==
    IF has_won(mover_mask)
    THEN (IF receiver.current_player = "X" THEN "XWon" ELSE "OWon")
    ELSE IF is_filled(game.board) THEN "Draw"
    ELSE "StillGoing"

\* C15: for every state returned by an accepted move, checking only the
\* mover's lines and then the draw gives the status get_status gives; in every
\* reachable state XWon implies O is the current player and OWon implies X is.
C15_MoverOnlyCheck ==
    /\ (ret = "Some") => (mover_status = get_status(game) /\ mover_status = game.status)
    /\ (game.status = "XWon") => game.current_player = "O"
    /\ (game.status = "OWon") => game.current_player = "X"

\* O completes a line while X holds two cells of a line of its own.
C15_Witness ==
    /\ ret = "Some"
    /\ receiver.current_player = "O"
    /\ game.status = "OWon"
    /\ game.current_player = "X"
    /\ \E L \in Lines : Cardinality(L \cap game.board.x_board) = 2

\* C16: in every reachable state neither mask has a bit above index 8.
C16_NineBitsOnly ==
    /\ game.board.x_board \subseteq Cells
    /\ game.board.o_board \subseteq Cells

\* C17: the number of X marks minus the number of O marks is 0 when X is to
\* move and 1 when O is to move; X never holds more than 5 marks and O never
\* more than 4.  Marks are counted over the whole mask.
C17_TurnConsistent ==
    /\ Cardinality(game.board.x_board) - Cardinality(game.board.o_board)
           = (IF game.current_player = "X" THEN 0 ELSE 1)
    /\ Cardinality(game.board.x_board) <= 5
    /\ Cardinality(game.board.o_board) <= 4

====
